---- MODULE Spec2Model ----
(***************************************************************************)
(* A model of the signed-request crypto trading client (robinhood.py):     *)
(* the domain-model constructors, the Transport (make_api_request), the    *)
(* TTL memoization of get_trading_pairs and the public operations of       *)
(* CryptoAPITrading.                                                       *)
(*                                                                         *)
(* Python values are modelled as follows.  A dict is a record (a function  *)
(* on its keys); a list is a sequence; an exception is the name of its     *)
(* class.  A decimal string of the wire format is a string, and float()    *)
(* is the table FloatValue (hundredths).  An ISO-8601 timestamp of the     *)
(* wire format is a record of its local seconds, its fractional part in    *)
(* nanoseconds and its UTC offset in seconds; datetime.fromisoformat keeps *)
(* microseconds only, and two aware datetimes are equal when they are the  *)
(* same instant.                                                           *)
(***************************************************************************)
EXTENDS Integers, Sequences, FiniteSets, TLC

VARIABLES
    now,       \* wall clock of the cache, in seconds
    ticks,     \* number of clock advances so far
    cache,     \* the disk cache: argument tuple of get_trading_pairs -> entry
    last,      \* the call that has just returned: operation, inputs, outcome
    hist,      \* per argument tuple: the latest calls of get_trading_pairs
    produced,  \* per argument tuple: the values concurrent callers have fetched
    pc,        \* concurrent callers: position inside the memoize wrapper
    call       \* concurrent callers: the locals of the running call

vars == <<now, ticks, cache, last, hist, produced, pc, call>>

(***************************************************************************)
(* Outcomes of a Python call: a returned value or a raised exception.      *)
(***************************************************************************)
Nothing == [kind |-> "nothing"]

Ok(v) == [raised |-> "", value |-> v]

Raise(e) == [raised |-> e, value |-> Nothing]

IsOk(o) == o.raised = ""

\* The first exception of a left-to-right evaluation; "" when none is raised.
FirstRaised(errs) ==
    IF \E i \in 1..Len(errs) : errs[i] # ""
    THEN errs[CHOOSE i \in 1..Len(errs) :
                  errs[i] # "" /\ \A j \in 1..(i - 1) : errs[j] = ""]
    ELSE ""

(***************************************************************************)
(* float(str): the decimal strings of the model and their values, in       *)
(* hundredths.  "1" and "1.0" are different strings with the same value;   *)
(* "abc" raises ValueError.                                                *)
(***************************************************************************)
DecimalStrings == {"1", "1.0", "2", "3", "4", "5", "6", "abc"}

IsFloatString(s) == s \in {"1", "1.0", "2", "3", "4", "5", "6"}

FloatValue(s) ==
    CASE s = "1" -> 100
      [] s = "1.0" -> 100
      [] s = "2" -> 200
      [] s = "3" -> 300
      [] s = "4" -> 400
      [] s = "5" -> 500
      [] s = "6" -> 600
      [] OTHER -> 0

\* data[key] then float(...): KeyError, ValueError or no error.
FloatFieldError(data, key) ==
    IF key \notin DOMAIN data THEN "KeyError"
    ELSE IF ~IsFloatString(data[key]) THEN "ValueError"
    ELSE ""

\* data[key]: KeyError or no error.
FieldError(data, key) == IF key \notin DOMAIN data THEN "KeyError" ELSE ""

(***************************************************************************)
(* datetime.fromisoformat and datetime equality.                           *)
(***************************************************************************)
WireTimestamp(sec, nanos, off) == [iso |-> TRUE, sec |-> sec, nanos |-> nanos, off |-> off]

NotATimestamp == [iso |-> FALSE, sec |-> 0, nanos |-> 0, off |-> 0]

\* The parsed datetime: fractional digits beyond microseconds are dropped.
FromIsoFormat(s) == [sec |-> s.sec, micro |-> s.nanos \div 1000, off |-> s.off]

TimestampFieldError(data, key) ==
    IF key \notin DOMAIN data THEN "KeyError"
    ELSE IF ~data[key].iso THEN "ValueError"
    ELSE ""

\* a == b on timezone-aware datetimes: the same instant.
DatetimeEq(a, b) == (a.sec - a.off = b.sec - b.off) /\ (a.micro = b.micro)

(***************************************************************************)
(* TradingPair.from_dict                                                   *)
(***************************************************************************)
TradingPair_from_dict(data) ==
    LET err == FirstRaised(<<
            FieldError(data, "asset_code"),
            FloatFieldError(data, "asset_increment"),
            FloatFieldError(data, "max_order_size"),
            FloatFieldError(data, "min_order_size"),
            FieldError(data, "quote_code"),
            FloatFieldError(data, "quote_increment"),
            FieldError(data, "status"),
            FieldError(data, "symbol")>>)
    IN  IF err # "" THEN Raise(err)
        ELSE Ok([asset_code |-> data["asset_code"],
                 asset_increment |-> FloatValue(data["asset_increment"]),
                 max_order_size |-> FloatValue(data["max_order_size"]),
                 min_order_size |-> FloatValue(data["min_order_size"]),
                 quote_code |-> data["quote_code"],
                 quote_increment |-> FloatValue(data["quote_increment"]),
                 status |-> data["status"],
                 symbol |-> data["symbol"]])

(***************************************************************************)
(* EstimatedOrderPrice.from_dict                                           *)
(***************************************************************************)
PriceIncludingSpreadKey(side) ==
    IF side = "bid" THEN "bid_inclusive_of_sell_spread" ELSE "ask_inclusive_of_buy_spread"

SpreadKey(side) == IF side = "bid" THEN "sell_spread" ELSE "buy_spread"

EstimatedOrderPrice_from_dict(data) ==
    IF "side" \notin DOMAIN data THEN Raise("KeyError")
    ELSE
    LET price_including_spread_key == PriceIncludingSpreadKey(data["side"])
        spread_key == SpreadKey(data["side"])
        err == FirstRaised(<<
            FieldError(data, "symbol"),
            FloatFieldError(data, "price"),
            FloatFieldError(data, "quantity"),
            TimestampFieldError(data, "timestamp"),
            FloatFieldError(data, price_including_spread_key),
            FloatFieldError(data, spread_key)>>)
    IN  IF err # "" THEN Raise(err)
        ELSE Ok([symbol |-> data["symbol"],
                 price |-> FloatValue(data["price"]),
                 quantity |-> FloatValue(data["quantity"]),
                 side |-> data["side"],
                 timestamp |-> FromIsoFormat(data["timestamp"]),
                 price_including_spread |-> FloatValue(data[price_including_spread_key]),
                 spread |-> FloatValue(data[spread_key])])

(***************************************************************************)
(* EstimatedBidAndAskPrice.from_objs / from_dict                           *)
(***************************************************************************)
\* from_objs without its timestamp check, as EstimatedOrderPriceHistoryEntry.from_objs.
EstimatedBidAndAskPrice_from_objs_unchecked(bid, ask) ==
    Ok([bid |-> bid, ask |-> ask, timestamp |-> bid.timestamp])

EstimatedBidAndAskPrice_from_objs(bid, ask) ==
    IF ~DatetimeEq(bid.timestamp, ask.timestamp) THEN Raise("ValueError")
    ELSE Ok([bid |-> bid, ask |-> ask, timestamp |-> bid.timestamp])

EstimatedBidAndAskPrice_from_dict(data) ==
    IF "bid" \notin DOMAIN data THEN Raise("KeyError")
    ELSE
    LET bid == EstimatedOrderPrice_from_dict(data["bid"])
    IN  IF ~IsOk(bid) THEN Raise(bid.raised)
        ELSE IF "ask" \notin DOMAIN data THEN Raise("KeyError")
        ELSE
        LET ask == EstimatedOrderPrice_from_dict(data["ask"])
        IN  IF ~IsOk(ask) THEN Raise(ask.raised)
            ELSE IF ~DatetimeEq(bid.value.timestamp, ask.value.timestamp)
                 THEN Raise("ValueError")
            ELSE Ok([bid |-> bid.value, ask |-> ask.value,
                     timestamp |-> bid.value.timestamp])

(***************************************************************************)
(* EstimatedOrderPriceHistoryEntry.from_objs                               *)
(***************************************************************************)
EstimatedOrderPriceHistoryEntry_from_objs(bid, ask) ==
    [symbol |-> bid.symbol,
     bid_price |-> bid.price,
     bid_quantity |-> bid.quantity,
     bid_side |-> bid.side,
     bid_timestamp |-> bid.timestamp,
     bid_price_including_spread |-> bid.price_including_spread,
     bid_spread |-> bid.spread,
     ask_price |-> ask.price,
     ask_quantity |-> ask.quantity,
     ask_side |-> ask.side,
     ask_timestamp |-> ask.timestamp,
     ask_price_including_spread |-> ask.price_including_spread,
     ask_spread |-> ask.spread,
     timestamp |-> bid.timestamp]

(***************************************************************************)
(* Transport: CryptoAPITrading.make_api_request.  resp is what the         *)
(* upstream does with the request if one is issued: a network-level error  *)
(* (requests.ConnectionError, requests.Timeout: both RequestException) or  *)
(* an HTTP response with a status code and a JSON body.                    *)
(***************************************************************************)
NoneValue == [kind |-> "None"]

IsNone(v) == "kind" \in DOMAIN v /\ v.kind = "None"

HttpResponse(status_code, json) == [kind |-> "http", status_code |-> status_code, json |-> json]

NetworkError(e) == [kind |-> e, status_code |-> 0, json |-> NoneValue]

\* json.loads(body) raises json.JSONDecodeError on the empty string.
JsonLoadsError(body) == IF body = "" THEN "JSONDecodeError" ELSE ""

\* response.status_code >= 400
ErrorStatus == 400

IsErrorStatus(status_code) == status_code >= ErrorStatus

\* One make_api_request call: what was asked, the HTTP requests issued, whether
\* a body went with the request, how the request failed ("" when it did not, or
\* when none was issued) and the outcome handed to the caller.
TransportCall(method, body, requests, body_attached, failure, outcome) ==
    [method |-> method, body |-> body, requests |-> requests,
     body_attached |-> body_attached, failure |-> failure, outcome |-> outcome]

\* The except/status branch of make_api_request once the request was issued.
Respond(method, body, body_attached, resp) ==
    IF resp.kind # "http"
    THEN \* except requests.RequestException: return None
         TransportCall(method, body, 1, body_attached, "network", Ok(NoneValue))
    ELSE IF IsErrorStatus(resp.status_code)
    THEN TransportCall(method, body, 1, body_attached, "status", Ok(NoneValue))
    ELSE TransportCall(method, body, 1, body_attached, "", Ok(resp.json))

\* make_api_request trying a failed request a second time.
make_api_request_retry(method, body, resp) ==
    LET attached == method = "POST"
        first == Respond(method, body, attached, resp)
    IN  IF method \notin {"GET", "POST"}
        THEN TransportCall(method, body, 0, FALSE, "", Raise("AttributeError"))
        ELSE IF attached /\ JsonLoadsError(body) # ""
        THEN TransportCall(method, body, 0, FALSE, "", Raise(JsonLoadsError(body)))
        ELSE IF first.failure # "" THEN [first EXCEPT !.requests = 2]
        ELSE first

make_api_request(method, body, resp) ==
    IF method = "GET" THEN
        \* requests.get(url, headers=headers, timeout=10)
        Respond(method, body, FALSE, resp)
    ELSE IF method = "POST" THEN
        \* requests.post(url, headers=headers, json=json.loads(body), timeout=10):
        \* the argument json.loads(body) is evaluated before the request is made,
        \* and JSONDecodeError is no RequestException.
        IF JsonLoadsError(body) # ""
        THEN TransportCall(method, body, 0, FALSE, "", Raise(JsonLoadsError(body)))
        ELSE Respond(method, body, TRUE, resp)
    ELSE
        \* response = {} and {}.status_code raises AttributeError
        TransportCall(method, body, 0, FALSE, "", Raise("AttributeError"))

(***************************************************************************)
(* The result of a client operation: its outcome, the Transport calls it   *)
(* made, in order, and the cache it leaves.                                *)
(***************************************************************************)
Result(outcome, calls, c) == [outcome |-> outcome, calls |-> calls, cache |-> c]

\* The HTTP requests a sequence of Transport calls issued.
RECURSIVE Requests(_)
Requests(calls) ==
    IF calls = <<>> THEN 0 ELSE calls[1].requests + Requests(Tail(calls))

\* make_api_request(...).get("results")
GetResults(json) ==
    IF IsNone(json) THEN Raise("AttributeError")
    ELSE IF "results" \in DOMAIN json THEN Ok(json.results)
    ELSE Ok(NoneValue)

\* make_api_request(...)["results"]
SubscriptResults(json) ==
    IF IsNone(json) THEN Raise("TypeError")
    ELSE IF "results" \in DOMAIN json THEN Ok(json.results)
    ELSE Raise("KeyError")

\* A list comprehension over built outcomes: the first exception raised, or the list.
ListOfBuilt(built) ==
    LET err == FirstRaised([i \in 1..Len(built) |-> built[i].raised])
    IN  IF err # "" THEN Raise(err)
        ELSE Ok([i \in 1..Len(built) |-> built[i].value])

\* [TradingPair.from_dict(data) for data in r]
TradingPairsOf(r) == ListOfBuilt([i \in 1..Len(r) |-> TradingPair_from_dict(r[i])])

\* [EstimatedOrderPrice.from_dict(data) for data in r]
EstimatedOrderPricesOf(r) ==
    ListOfBuilt([i \in 1..Len(r) |-> EstimatedOrderPrice_from_dict(r[i])])

(***************************************************************************)
(* The raw-payload operations.                                             *)
(***************************************************************************)
get_account(c, resp) ==
    LET r == make_api_request("GET", "", resp)
    IN  Result(r.outcome, <<r>>, c)

get_holdings(c, resp) ==
    LET r == make_api_request("GET", "", resp)
    IN  Result(IF IsOk(r.outcome) THEN GetResults(r.outcome.value) ELSE r.outcome, <<r>>, c)

get_best_bid_ask(c, resp) ==
    LET r == make_api_request("GET", "", resp)
    IN  Result(IF IsOk(r.outcome) THEN GetResults(r.outcome.value) ELSE r.outcome, <<r>>, c)

\* json.dumps of the order body; its config key is "<order_type>_order_config".
OrderBody(client_order_id, side, order_type, symbol) ==
    "{\"client_order_id\": \"" \o client_order_id \o "\", \"side\": \"" \o side
    \o "\", \"type\": \"" \o order_type \o "\", \"symbol\": \"" \o symbol
    \o "\", \"" \o order_type \o "_order_config\": {}}"

place_order(c, client_order_id, side, order_type, symbol, resp) ==
    LET r == make_api_request("POST", OrderBody(client_order_id, side, order_type, symbol), resp)
    IN  Result(r.outcome, <<r>>, c)

\* make_api_request("POST", path): body is the default "".
cancel_order(c, resp) ==
    LET r == make_api_request("POST", "", resp)
    IN  Result(r.outcome, <<r>>, c)

get_order(c, resp) ==
    LET r == make_api_request("GET", "", resp)
    IN  Result(r.outcome, <<r>>, c)

get_orders(c, resp) ==
    LET r == make_api_request("GET", "", resp)
    IN  Result(r.outcome, <<r>>, c)

(***************************************************************************)
(* The cache (diskcache.Cache) and @cache.memoize(expire=86400) on         *)
(* get_trading_pairs.  The key of a call is its argument tuple; an entry   *)
(* is readable while expire_time > now; the wrapper stores the result of   *)
(* the wrapped function when it returns, and nothing when it raises.       *)
(***************************************************************************)
TTL == 86400

NoEntry == [present |-> FALSE, value |-> <<>>, expire_time |-> 0]

Entry(value, expire_time) == [present |-> TRUE, value |-> value, expire_time |-> expire_time]

\* Cache.get reading an entry in the second it expires.
cache_hit_inclusive(c, t, key) == c[key].present /\ c[key].expire_time >= t

\* Cache.get: the entry under key, unless absent or expired.
cache_hit(c, t, key) == c[key].present /\ c[key].expire_time > t

\* Cache.set adding to the value stored under key instead of replacing it.
cache_set_append(c, t, key, value, expire) ==
    [c EXCEPT ![key] = Entry(@.value \o value, t + expire)]

\* Cache.set(key, result, expire)
cache_set(c, t, key, value, expire) == [c EXCEPT ![key] = Entry(value, t + expire)]

\* The body of get_trading_pairs: one GET, ["results"], TradingPair.from_dict of each.
trading_pairs_body(resp) ==
    LET r == make_api_request("GET", "", resp)
        results == IF IsOk(r.outcome) THEN SubscriptResults(r.outcome.value) ELSE r.outcome
    IN  [outcome |-> IF IsOk(results) THEN TradingPairsOf(results.value)
                     ELSE results,
         calls |-> <<r>>]

\* A memoize wrapper that stores an empty result when the wrapped function raises.
get_trading_pairs_store_failure(c, t, symbols, resp) ==
    IF cache_hit(c, t, symbols) THEN Result(Ok(c[symbols].value), <<>>, c)
    ELSE LET b == trading_pairs_body(resp)
         IN  IF IsOk(b.outcome)
             THEN Result(b.outcome, b.calls, cache_set(c, t, symbols, b.outcome.value, TTL))
             ELSE Result(b.outcome, b.calls, cache_set(c, t, symbols, <<>>, TTL))

\* The memoized get_trading_pairs(*symbols), called at time t.
get_trading_pairs(c, t, symbols, resp) ==
    IF cache_hit(c, t, symbols) THEN Result(Ok(c[symbols].value), <<>>, c)
    ELSE LET b == trading_pairs_body(resp)
         IN  IF IsOk(b.outcome)
             THEN Result(b.outcome, b.calls, cache_set(c, t, symbols, b.outcome.value, TTL))
             ELSE Result(b.outcome, b.calls, c)

(***************************************************************************)
(* The quote operations.                                                   *)
(***************************************************************************)
\* r = make_api_request(...).get("results"); [from_dict(data) for data in r]
get_estimated_price(c, resp) ==
    LET r == make_api_request("GET", "", resp)
        json == r.outcome.value
    IN  Result(IF IsNone(json) THEN Raise("AttributeError")
               ELSE IF "results" \notin DOMAIN json THEN Raise("TypeError")
               ELSE EstimatedOrderPricesOf(json.results),
               <<r>>, c)

\* seq[0]
First(outcome) ==
    IF ~IsOk(outcome) THEN outcome
    ELSE IF outcome.value = <<>> THEN Raise("IndexError")
    ELSE Ok(outcome.value[1])

get_estimated_bid_price(c, resp) ==
    LET r == get_estimated_price(c, resp)
    IN  Result(First(r.outcome), r.calls, c)

get_estimated_ask_price(c, resp) ==
    LET r == get_estimated_price(c, resp)
    IN  Result(First(r.outcome), r.calls, c)

get_quantity_of_crypto(c, t, symbol, price, tpResp, resp) ==
    LET tps == get_trading_pairs(c, t, <<symbol>>, tpResp)
        tp == First(tps.outcome)
    IN  IF ~IsOk(tp) THEN Result(tp, tps.calls, tps.cache)
        ELSE LET r == get_estimated_bid_price(tps.cache, resp)
             IN  Result(IF IsOk(r.outcome)
                        THEN Ok([dividend |-> price, divisor |-> r.outcome.value.price])
                        ELSE r.outcome,
                        tps.calls \o r.calls, tps.cache)

\* [x for x in both if x.side == side]
WithSide(both, side) == SelectSeq(both, LAMBDA x : x.side = side)

get_current_estimated_price(c, t, symbol, tpResp, resp) ==
    LET tps == get_trading_pairs(c, t, <<symbol>>, tpResp)
        tp == First(tps.outcome)
    IN  IF ~IsOk(tp) THEN Result(tp, tps.calls, tps.cache)
        ELSE LET both == get_estimated_price(tps.cache, resp)
                 calls == tps.calls \o both.calls
             IN  IF ~IsOk(both.outcome) THEN Result(both.outcome, calls, tps.cache)
                 ELSE LET bid == First(Ok(WithSide(both.outcome.value, "bid")))
                          ask == First(Ok(WithSide(both.outcome.value, "ask")))
                      IN  IF ~IsOk(bid) THEN Result(bid, calls, tps.cache)
                          ELSE IF ~IsOk(ask) THEN Result(ask, calls, tps.cache)
                          ELSE Result(Ok(EstimatedOrderPriceHistoryEntry_from_objs(
                                             bid.value, ask.value)),
                                      calls, tps.cache)

(***************************************************************************)
(* Bounds of the exploration.                                              *)
(***************************************************************************)
\* Clock advances per behaviour.
MaxTicks == 3

\* Entries of an upstream estimated-price result.
MaxQuotes == 3

\* Concurrent callers of get_trading_pairs.
NumCallers == 2

(***************************************************************************)
(* Upstream payloads.                                                      *)
(***************************************************************************)
RawTradingPair(symbol, min_order_size) ==
    [asset_code |-> "SHIB", asset_increment |-> "1", max_order_size |-> "2",
     min_order_size |-> min_order_size, quote_code |-> "USD",
     quote_increment |-> "1.0", status |-> "tradable", symbol |-> symbol]

\* A trading pair without its "status" field.
RawTradingPairNoStatus ==
    [asset_code |-> "SHIB", asset_increment |-> "1", max_order_size |-> "2",
     min_order_size |-> "1", quote_code |-> "USD",
     quote_increment |-> "1.0", symbol |-> "SHIB-USD"]

ErrorJson == [detail |-> "error"]

\* What the upstream may do with any request: fail, or answer with an error status.
FailureResponses ==
    {NetworkError("ConnectionError"), NetworkError("Timeout"),
     HttpResponse(400, ErrorJson), HttpResponse(503, ErrorJson)}

\* Successful answers to a trading-pairs request, well-formed or not.
GoodTradingPairsJson ==
    {[results |-> <<RawTradingPair("SHIB-USD", "1")>>],
     [results |-> <<RawTradingPair("SHIB-USD", "2")>>],
     [results |-> <<>>]}

BadTradingPairsJson ==
    {[results |-> <<RawTradingPair("SHIB-USD", "abc")>>],
     [results |-> <<RawTradingPairNoStatus>>],
     ErrorJson}

TradingPairsResponses ==
    FailureResponses
    \cup {HttpResponse(200, j) : j \in GoodTradingPairsJson \cup BadTradingPairsJson}

\* Answers to a raw-payload request.
RawResponses ==
    FailureResponses
    \cup {HttpResponse(200, [results |-> <<"item">>]), HttpResponse(200, [id |-> "1"])}

\* The two instants of the upstream quotes, and other spellings of the first:
\* more fractional digits, and another UTC offset.
T0 == WireTimestamp(36000, 104485000, 0)

T0Nanos == WireTimestamp(36000, 104485455, 0)

T0Offset == WireTimestamp(18000, 104485000, -18000)

T1 == WireTimestamp(36105, 545528050, 0)

BidFields == [bid_inclusive_of_sell_spread |-> "3", sell_spread |-> "4"]

AskFields == [ask_inclusive_of_buy_spread |-> "5", buy_spread |-> "6"]

RawQuote(side, price, timestamp, spreads) ==
    [symbol |-> "SHIB-USD", price |-> price, quantity |-> "1", side |-> side,
     timestamp |-> timestamp] @@ spreads

\* The quotes the estimated-price endpoint answers with.
UpstreamQuotes ==
    {RawQuote("bid", "1", t, BidFields) : t \in {T0, T1}}
    \cup {RawQuote("ask", "2", t, AskFields) : t \in {T0, T1}}

RECURSIVE SeqsUpTo(_, _)
SeqsUpTo(S, n) ==
    IF n = 0 THEN {<<>>}
    ELSE LET shorter == SeqsUpTo(S, n - 1)
         IN  shorter \cup {Append(q, x) : q \in shorter, x \in S}

EstimatedPriceResponses ==
    FailureResponses
    \cup {HttpResponse(200, ErrorJson),
          HttpResponse(200, [results |-> <<RawQuote("bid", "abc", T0, BidFields)>>])}
    \cup {HttpResponse(200, [results |-> q]) : q \in SeqsUpTo(UpstreamQuotes, MaxQuotes)}

\* Raw quotes handed to the constructors directly.
ModelQuotes ==
    {RawQuote(side, price, t, spreads) :
        side \in {"bid", "ask", "both"},
        price \in {"2", "abc"},
        t \in {T0, T0Nanos, T0Offset, T1, NotATimestamp},
        spreads \in {BidFields, AskFields, BidFields @@ AskFields}}

\* The EstimatedOrderPrice objects built from them.
ModelPrices ==
    {EstimatedOrderPrice_from_dict(q).value :
        q \in {d \in ModelQuotes : IsOk(EstimatedOrderPrice_from_dict(d))}}

(***************************************************************************)
(* The state.                                                              *)
(***************************************************************************)
Symbols == {"SHIB-USD"}

\* The argument tuples get_trading_pairs is called with.
Keys == {<<>>, <<"SHIB-USD">>}

Callers == 1..NumCallers

Idle == [op |-> "idle"]

NoHist ==
    [succ_time |-> -1, succ_value |-> <<>>, fetch_time |-> -1, fetch_value |-> <<>>,
     failed |-> FALSE]

NoCall == [symbols |-> <<>>, readable |-> FALSE, requests |-> 0, outcome |-> Raise("pending")]

\* A result the cache may hold from an earlier run of the program.
StoredValue == <<TradingPair_from_dict(RawTradingPair("SHIB-USD", "1")).value>>

Quiet ==
    /\ now = 0
    /\ ticks = 0
    /\ last = Idle
    /\ hist = [k \in Keys |-> NoHist]
    /\ produced = [k \in Keys |-> {}]
    /\ pc = [p \in Callers |-> "idle"]
    /\ call = [p \in Callers |-> NoCall]

\* The cache directory outlives the process: at construction an entry may be
\* absent, expired or readable.
Init ==
    /\ Quiet
    /\ cache \in [Keys -> {NoEntry, Entry(StoredValue, 0), Entry(StoredValue, TTL)}]

InitEmpty ==
    /\ Quiet
    /\ cache = [k \in Keys |-> NoEntry]

(***************************************************************************)
(* Sequential calls.  An operation is called when no call is being         *)
(* observed, runs to its return or exception, and leaves in last what the  *)
(* caller sees; Return is the caller moving on.                            *)
(***************************************************************************)
Called(op, res) ==
    [op |-> op, time |-> now, outcome |-> res.outcome, calls |-> res.calls]

\* hist after a get_trading_pairs call with arguments k at time t.
HistAfter(h, k, t, res) ==
    IF IsOk(res.outcome)
    THEN [h EXCEPT ![k] =
            [succ_time |-> t, succ_value |-> res.outcome.value,
             fetch_time |-> IF res.calls # <<>> THEN t ELSE @.fetch_time,
             fetch_value |-> IF res.calls # <<>> THEN res.outcome.value ELSE @.fetch_value,
             failed |-> FALSE]]
    ELSE [h EXCEPT ![k].failed = TRUE]

Sequential == last.op = "idle" /\ \A p \in Callers : pc[p] = "idle"

Return ==
    /\ last.op # "idle"
    /\ last' = Idle
    /\ UNCHANGED <<now, ticks, cache, hist, produced, pc, call>>

\* Time passes, between calls and while concurrent callers are inside one.
Tick ==
    /\ last.op = "idle"
    /\ ticks < MaxTicks
    /\ \E d \in {1, TTL - 1} : now' = now + d
    /\ ticks' = ticks + 1
    /\ UNCHANGED <<cache, last, hist, produced, pc, call>>

\* A call that leaves the cache alone.
Uncached(op, result) ==
    /\ \E res \in {result} : last' = Called(op, res)
    /\ UNCHANGED <<now, ticks, cache, hist, produced, pc, call>>

MakeApiRequest ==
    /\ Sequential
    /\ \E method \in {"GET", "POST", "PUT"}, body \in {"", OrderBody("id", "buy", "market", "SHIB-USD")},
       resp \in RawResponses :
        Uncached("make_api_request",
                 Result(make_api_request(method, body, resp).outcome,
                        <<make_api_request(method, body, resp)>>, cache))

GetAccount ==
    /\ Sequential
    /\ \E resp \in RawResponses : Uncached("get_account", get_account(cache, resp))

GetHoldings ==
    /\ Sequential
    /\ \E resp \in RawResponses : Uncached("get_holdings", get_holdings(cache, resp))

GetBestBidAsk ==
    /\ Sequential
    /\ \E resp \in RawResponses : Uncached("get_best_bid_ask", get_best_bid_ask(cache, resp))

PlaceOrder ==
    /\ Sequential
    /\ \E resp \in RawResponses, order_type \in {"market", "limit"} :
        Uncached("place_order", place_order(cache, "id", "buy", order_type, "SHIB-USD", resp))

CancelOrder ==
    /\ Sequential
    /\ \E resp \in RawResponses : Uncached("cancel_order", cancel_order(cache, resp))

GetOrder ==
    /\ Sequential
    /\ \E resp \in RawResponses : Uncached("get_order", get_order(cache, resp))

GetOrders ==
    /\ Sequential
    /\ \E resp \in RawResponses : Uncached("get_orders", get_orders(cache, resp))

GetEstimatedPrice ==
    /\ Sequential
    /\ \E resp \in EstimatedPriceResponses :
        Uncached("get_estimated_price", get_estimated_price(cache, resp))

GetEstimatedBidPrice ==
    /\ Sequential
    /\ \E resp \in EstimatedPriceResponses :
        Uncached("get_estimated_bid_price", get_estimated_bid_price(cache, resp))

GetEstimatedAskPrice ==
    /\ Sequential
    /\ \E resp \in EstimatedPriceResponses :
        Uncached("get_estimated_ask_price", get_estimated_ask_price(cache, resp))

\* The upstream answers only the requests that are made: none for the trading
\* pairs on a cache hit, none for the quotes when the trading pair is not had.
TradingPairsUpstream(symbols) ==
    IF cache_hit(cache, now, symbols) THEN {NetworkError("ConnectionError")}
    ELSE TradingPairsResponses

EstimatedPriceUpstream(tps) ==
    IF IsOk(First(tps.outcome)) THEN EstimatedPriceResponses
    ELSE {NetworkError("ConnectionError")}

\* A call that goes through the memoized get_trading_pairs(*symbols).
Cached(op, symbols, trading_pairs, result) ==
    /\ \E tps \in {trading_pairs}, res \in {result} :
        /\ last' = Called(op, res) @@
                   [symbols |-> symbols,
                    readable |-> cache[symbols].present /\ now < cache[symbols].expire_time,
                    before |-> cache, prev |-> hist[symbols]]
        /\ cache' = res.cache
        /\ hist' = HistAfter(hist, symbols, now, tps)
    /\ UNCHANGED <<now, ticks, produced, pc, call>>

GetTradingPairs ==
    /\ Sequential
    /\ \E symbols \in Keys :
        \E resp \in TradingPairsUpstream(symbols) :
            \E res \in {get_trading_pairs(cache, now, symbols, resp)} :
                Cached("get_trading_pairs", symbols, res, res)

GetQuantityOfCrypto ==
    /\ Sequential
    /\ \E symbol \in Symbols : \E tpResp \in TradingPairsUpstream(<<symbol>>) :
        \E tps \in {get_trading_pairs(cache, now, <<symbol>>, tpResp)} :
            \E resp \in EstimatedPriceUpstream(tps) :
                Cached("get_quantity_of_crypto", <<symbol>>, tps,
                       get_quantity_of_crypto(cache, now, symbol, 100, tpResp, resp))

GetCurrentEstimatedPrice ==
    /\ Sequential
    /\ \E symbol \in Symbols : \E tpResp \in TradingPairsUpstream(<<symbol>>) :
        \E tps \in {get_trading_pairs(cache, now, <<symbol>>, tpResp)} :
            \E resp \in EstimatedPriceUpstream(tps) :
                Cached("get_current_estimated_price", <<symbol>>, tps,
                       get_current_estimated_price(cache, now, symbol, tpResp, resp))

\* Every public operation of the client, from any state of the cache.
Next ==
    \/ Return
    \/ MakeApiRequest
    \/ GetAccount
    \/ GetHoldings
    \/ GetBestBidAsk
    \/ PlaceOrder
    \/ CancelOrder
    \/ GetOrder
    \/ GetOrders
    \/ GetTradingPairs
    \/ GetEstimatedPrice
    \/ GetEstimatedBidPrice
    \/ GetEstimatedAskPrice
    \/ GetQuantityOfCrypto
    \/ GetCurrentEstimatedPrice

Spec == Init /\ [][Next]_vars

\* get_trading_pairs over time.
NextCache == Return \/ Tick \/ GetTradingPairs

SpecCache == InitEmpty /\ [][NextCache]_vars

(***************************************************************************)
(* Concurrent callers of get_trading_pairs with one argument tuple.  The   *)
(* memoize wrapper takes no lock: a caller reads the cache (Begin), and on *)
(* a miss runs the wrapped function (Fetch) and then stores its result     *)
(* (Store); the read and the store are each one cache transaction.         *)
(***************************************************************************)
ConcKeys == {<<"SHIB-USD">>}

ConcResponses ==
    {NetworkError("Timeout"),
     HttpResponse(200, [results |-> <<RawTradingPair("SHIB-USD", "1")>>]),
     HttpResponse(200, [results |-> <<RawTradingPair("SHIB-USD", "2")>>])}

Begin(p) ==
    /\ pc[p] = "idle"
    /\ \E symbols \in ConcKeys :
        /\ call' = [call EXCEPT ![p] =
                [symbols |-> symbols,
                 readable |-> cache[symbols].present /\ now < cache[symbols].expire_time,
                 requests |-> 0,
                 outcome |-> IF cache_hit(cache, now, symbols)
                             THEN Ok(cache[symbols].value) ELSE Raise("pending")]]
        /\ pc' = [pc EXCEPT ![p] = IF cache_hit(cache, now, symbols) THEN "done" ELSE "fetch"]
    /\ UNCHANGED <<now, ticks, cache, last, hist, produced>>

Fetch(p) ==
    /\ pc[p] = "fetch"
    /\ \E resp \in ConcResponses :
        \E b \in {trading_pairs_body(resp)} :
            /\ call' = [call EXCEPT ![p].requests = @ + Requests(b.calls),
                                    ![p].outcome = b.outcome]
            /\ pc' = [pc EXCEPT ![p] = IF IsOk(b.outcome) THEN "store" ELSE "done"]
            /\ produced' = IF IsOk(b.outcome)
                           THEN [produced EXCEPT ![call[p].symbols] = @ \cup {b.outcome.value}]
                           ELSE produced
    /\ UNCHANGED <<now, ticks, cache, last, hist>>

Store(p) ==
    /\ pc[p] = "store"
    /\ cache' = cache_set(cache, now, call[p].symbols, call[p].outcome.value, TTL)
    /\ pc' = [pc EXCEPT ![p] = "done"]
    /\ UNCHANGED <<now, ticks, last, hist, produced, call>>

Finish(p) ==
    /\ pc[p] = "done"
    /\ pc' = [pc EXCEPT ![p] = "idle"]
    /\ call' = [call EXCEPT ![p] = NoCall]
    /\ UNCHANGED <<now, ticks, cache, last, hist, produced>>

NextConc ==
    \/ Tick
    \/ \E p \in Callers : Begin(p)
    \/ \E p \in Callers : Fetch(p)
    \/ \E p \in Callers : Store(p)
    \/ \E p \in Callers : Finish(p)

SpecConc == InitEmpty /\ [][NextConc]_vars

(***************************************************************************)
(* The constructors of the domain model, applied to raw payloads and to    *)
(* objects directly.                                                       *)
(***************************************************************************)
Built(op, data, outcome) ==
    /\ last' = [op |-> op, data |-> data, outcome |-> outcome]
    /\ UNCHANGED <<now, ticks, cache, hist, produced, pc, call>>

OrderPriceFromDict ==
    /\ Sequential
    /\ \E data \in ModelQuotes \cup {[symbol |-> "SHIB-USD", price |-> "2"]} :
        Built("EstimatedOrderPrice.from_dict", data, EstimatedOrderPrice_from_dict(data))

BidAndAskFromDict ==
    /\ Sequential
    /\ \E data \in [bid : ModelQuotes, ask : ModelQuotes] \cup [bid : ModelQuotes] :
        Built("EstimatedBidAndAskPrice.from_dict", data, EstimatedBidAndAskPrice_from_dict(data))

BidAndAskFromObjs ==
    /\ Sequential
    /\ \E bid \in ModelPrices, ask \in ModelPrices :
        Built("EstimatedBidAndAskPrice.from_objs", [bid |-> bid, ask |-> ask],
              EstimatedBidAndAskPrice_from_objs(bid, ask))

NextModel == Return \/ OrderPriceFromDict \/ BidAndAskFromDict \/ BidAndAskFromObjs

SpecModel == InitEmpty /\ [][NextModel]_vars

(***************************************************************************)
(* Properties.                                                             *)
(***************************************************************************)
IsTradingPairsCall == last.op = "get_trading_pairs"

\* C1, as stated: once a call with arguments k has succeeded at time t, every
\* later call with k before t + TTL returns an equal value without a Transport
\* request, and a call with k after the expiry issues exactly one request.
C1_WindowFromAnySuccess ==
    IsTradingPairsCall =>
        /\ (last.prev.succ_time >= 0 /\ last.time < last.prev.succ_time + TTL) =>
              /\ IsOk(last.outcome)
              /\ last.outcome.value = last.prev.succ_value
              /\ Requests(last.calls) = 0
        /\ (last.prev.succ_time >= 0 /\ last.time >= last.prev.succ_time + TTL) =>
              Requests(last.calls) = 1

\* C1, amended: the window runs from the call that fetched the result from the
\* Transport and stored it, at time t.  Every later call with the same arguments
\* before t + TTL returns a value equal to the fetched one and issues no Transport
\* request; a call with them at or after t + TTL issues exactly one.
C1_WindowFromFetch ==
    IsTradingPairsCall =>
        /\ (last.prev.fetch_time >= 0 /\ last.time < last.prev.fetch_time + TTL) =>
              /\ IsOk(last.outcome)
              /\ last.outcome.value = last.prev.fetch_value
              /\ Requests(last.calls) = 0
        /\ (last.prev.fetch_time >= 0 /\ last.time >= last.prev.fetch_time + TTL) =>
              Requests(last.calls) = 1

\* A call in the last second of the window of an earlier fetch, served from the cache.
C1_Witness ==
    /\ IsTradingPairsCall
    /\ last.prev.fetch_time >= 0
    /\ last.time = last.prev.fetch_time + TTL - 1
    /\ Requests(last.calls) = 0
    /\ last.outcome.value = last.prev.fetch_value

IsCurrentPriceCall == last.op = "get_current_estimated_price"

\* The raw entries the estimated-price request of the last call was answered with.
UpstreamQuotesOfLast == last.calls[Len(last.calls)].outcome.value.results

CountSide(quotes, side) == Len(SelectSeq(quotes, LAMBDA q : q.side = side))

\* C2: get_current_estimated_price returns an entry only when the upstream result
\* holds exactly one bid entry and exactly one ask entry; with zero or several
\* entries on a side it fails.
C2_ExactlyOnePerSide ==
    (IsCurrentPriceCall /\ IsOk(last.outcome)) =>
        /\ CountSide(UpstreamQuotesOfLast, "bid") = 1
        /\ CountSide(UpstreamQuotesOfLast, "ask") = 1

\* Two datetimes that are the same point in time.
SameInstant(a, b) == a.sec - a.off = b.sec - b.off /\ a.micro = b.micro

\* C3: every entry get_current_estimated_price returns has bid_timestamp =
\* ask_timestamp = timestamp; with differing upstream timestamps the call fails.
C3_EntryTimestampsAgree ==
    (IsCurrentPriceCall /\ IsOk(last.outcome)) =>
        /\ SameInstant(last.outcome.value.bid_timestamp, last.outcome.value.ask_timestamp)
        /\ SameInstant(last.outcome.value.bid_timestamp, last.outcome.value.timestamp)

RawPayloadOperations ==
    {"get_account", "get_holdings", "get_best_bid_ask", "place_order", "cancel_order",
     "get_order", "get_orders"}

\* C4: when the Transport request of a raw-payload operation fails (HTTP status
\* >= 400 or a network-level error), the operation returns the absent result and
\* no exception escapes.
C4_FailureIsAbsentResult ==
    (last.op \in RawPayloadOperations
        /\ \E i \in 1..Len(last.calls) : last.calls[i].failure # "") =>
        (IsOk(last.outcome) /\ IsNone(last.outcome.value))

IsClientCall == last.op # "idle"

\* C5, as stated: every public operation performs at most one Transport round trip.
C5_AtMostOneRoundTrip == IsClientCall => Requests(last.calls) <= 1

\* C5, amended: every public operation performs at most one Transport round trip,
\* except get_quantity_of_crypto and get_current_estimated_price, which perform at
\* most two: one for the trading pairs, only when the cache holds no readable
\* entry for the symbol, and one for the estimated price.
C5_RoundTrips ==
    IsClientCall =>
        IF last.op \in {"get_quantity_of_crypto", "get_current_estimated_price"}
        THEN /\ Requests(last.calls) <= 2
             /\ last.readable => Requests(last.calls) <= 1
        ELSE Requests(last.calls) <= 1

\* get_current_estimated_price on a cache miss: two round trips.
C5_Witness ==
    /\ IsCurrentPriceCall
    /\ ~last.readable
    /\ Requests(last.calls) = 2
    /\ IsOk(last.outcome)

\* C6: every Transport call with method GET or POST, whatever its body, issues
\* exactly one HTTP request and attaches a body only when the method is POST.
C6_ExactlyOneRequest ==
    IsClientCall =>
        \A i \in 1..Len(last.calls) :
            last.calls[i].method \in {"GET", "POST"} =>
                /\ last.calls[i].requests = 1
                /\ last.calls[i].body_attached <=> last.calls[i].method = "POST"

\* The outcome of pairing bid and ask: a failure when their timestamps differ, and
\* with equal timestamps an object whose timestamp equals both.
PairedByTimestamp(bid, ask, outcome) ==
    IF SameInstant(bid.timestamp, ask.timestamp)
    THEN /\ IsOk(outcome)
         /\ SameInstant(outcome.value.timestamp, bid.timestamp)
         /\ SameInstant(outcome.value.timestamp, ask.timestamp)
    ELSE ~IsOk(outcome)

\* C7: constructing an EstimatedBidAndAskPrice, from raw payloads or from two
\* EstimatedOrderPrice objects, fails when the timestamps of bid and ask differ;
\* when they are equal it succeeds and the composite timestamp equals both.
C7_PairNeedsEqualTimestamps ==
    /\ last.op = "EstimatedBidAndAskPrice.from_objs" =>
          PairedByTimestamp(last.data.bid, last.data.ask, last.outcome)
    /\ (last.op = "EstimatedBidAndAskPrice.from_dict"
          /\ "ask" \in DOMAIN last.data
          /\ IsOk(EstimatedOrderPrice_from_dict(last.data.bid))
          /\ IsOk(EstimatedOrderPrice_from_dict(last.data.ask))) =>
          PairedByTimestamp(EstimatedOrderPrice_from_dict(last.data.bid).value,
                            EstimatedOrderPrice_from_dict(last.data.ask).value,
                            last.outcome)

\* Two well-formed raw payloads at different instants: the construction failed.
C7_Witness ==
    /\ last.op = "EstimatedBidAndAskPrice.from_dict"
    /\ "ask" \in DOMAIN last.data
    /\ last.data.bid.timestamp = T0
    /\ last.data.ask.timestamp = T1
    /\ IsOk(EstimatedOrderPrice_from_dict(last.data.bid))
    /\ IsOk(EstimatedOrderPrice_from_dict(last.data.ask))
    /\ last.outcome.raised = "ValueError"

\* C8: concurrent callers of get_trading_pairs with one argument tuple each issue
\* at most one Transport request; the cache entry is always one whole result that
\* one of them fetched; and a call that starts while a stored entry is within its
\* TTL issues no Transport request.
C8_ConcurrentCallers ==
    /\ \A p \in Callers : call[p].requests <= 1
    /\ \A k \in Keys : cache[k].present => cache[k].value \in produced[k]
    /\ \A p \in Callers :
          (pc[p] # "idle" /\ call[p].readable) =>
              /\ pc[p] = "done"
              /\ call[p].requests = 0
              /\ IsOk(call[p].outcome)

\* Two callers raced on a miss, each fetched once, with different results, and
\* the cache holds one of them.
C8_Witness ==
    \E p, q \in Callers :
        /\ p # q
        /\ pc[p] = "done" /\ pc[q] = "done"
        /\ call[p].symbols = call[q].symbols
        /\ call[p].requests = 1 /\ call[q].requests = 1
        /\ IsOk(call[p].outcome) /\ IsOk(call[q].outcome)
        /\ call[p].outcome.value # call[q].outcome.value
        /\ cache[call[p].symbols].present
        /\ cache[call[p].symbols].value = call[q].outcome.value

\* C9: an EstimatedOrderPrice built from a raw payload takes price_including_spread
\* and spread from bid_inclusive_of_sell_spread and sell_spread when the payload's
\* side is "bid", from ask_inclusive_of_buy_spread and buy_spread when it is "ask",
\* and its side is always bid or ask.
C9_SideSelectsFields ==
    (last.op = "EstimatedOrderPrice.from_dict" /\ IsOk(last.outcome)) =>
        /\ last.data.side = "bid" =>
              /\ last.outcome.value.price_including_spread
                    = FloatValue(last.data.bid_inclusive_of_sell_spread)
              /\ last.outcome.value.spread = FloatValue(last.data.sell_spread)
        /\ last.data.side = "ask" =>
              /\ last.outcome.value.price_including_spread
                    = FloatValue(last.data.ask_inclusive_of_buy_spread)
              /\ last.outcome.value.spread = FloatValue(last.data.buy_spread)
        /\ last.outcome.value.side \in {"bid", "ask"}

\* C10: a get_trading_pairs call that fails, in the Transport or in the
\* construction of the model, leaves the cache as it was, and the next call with
\* the same arguments issues a Transport request.
C10_FailureIsNotCached ==
    IsTradingPairsCall =>
        /\ ~IsOk(last.outcome) => cache = last.before
        /\ last.prev.failed => Requests(last.calls) = 1

\* A failed call after a failed call, with an expired entry still in the cache.
C10_Witness ==
    /\ IsTradingPairsCall
    /\ last.prev.failed
    /\ ~IsOk(last.outcome)
    /\ cache[last.symbols].present
    /\ Requests(last.calls) = 1

====
